---- MODULE Spec2Model ----
(***************************************************************************)
(* conststr: `String<N>`, a fixed-capacity UTF-8 string kept in an inline  *)
(* byte array `buf: [u8; N]` with a logical length `len`.                  *)
(*                                                                         *)
(* Octets are the integers 0..255, characters are Unicode scalar values    *)
(* (integers), string slices are sequences of octets.  `buf` is indexed    *)
(* from zero as in the source.                                             *)
(***************************************************************************)
EXTENDS Integers, Sequences, FiniteSets, TLC

\* Largest capacity N that is instantiated (String<0> .. String<MaxCap>).
MaxCap == 4

\* Largest number of characters of a sequence handed to from_iter.
MaxIterChars == 3

\* Largest number of characters of a text handed to decode_utf8.
MaxTextChars == 2

VARIABLES
    cap,    \* the const parameter N of this instance
    buf,    \* String::buf, [0..N-1 -> octet]
    len,    \* String::len
    pc,     \* "start": nothing constructed; "returned": a call has returned
            \* and its result is in ret; "idle": the result has been taken;
            \* "failed": the constructor returned Err; "aborted": a panic
    ret,    \* what the last call returned, with the arguments it was given
    prev,   \* buf and len as they were when the last call was entered
    base,   \* buf and len when the current run of pushes began
    stk,    \* the characters pushed in the current run
    top,    \* how many of them have not been popped again
    memo,   \* an insert that returned Ok, then the remove at its index that
            \* followed it at once: the insert's arguments and the buf and
            \* len it was entered with
    arg,    \* the input handed to the constructor or function under test
    other,  \* a string built earlier and kept: its capacity, buf and len
    cmp,    \* what the comparisons of `other` with this string returned
    wire    \* the octets of the stream between encode and decode

vars == <<cap, buf, len, pc, ret, prev, base, stk, top, memo, arg, other, cmp, wire>>

-----------------------------------------------------------------------------
(* Bit arithmetic on unsigned integers.                                     *)

RECURSIVE BitAnd(_, _)
BitAnd(a, b) ==
    IF a = 0 \/ b = 0 THEN 0
    ELSE (IF a % 2 = 1 /\ b % 2 = 1 THEN 1 ELSE 0) + 2 * BitAnd(a \div 2, b \div 2)

RECURSIVE BitOr(_, _)
BitOr(a, b) ==
    IF a = 0 THEN b
    ELSE IF b = 0 THEN a
    ELSE (IF a % 2 = 1 \/ b % 2 = 1 THEN 1 ELSE 0) + 2 * BitOr(a \div 2, b \div 2)

RECURSIVE BitXor(_, _)
BitXor(a, b) ==
    IF a = 0 THEN b
    ELSE IF b = 0 THEN a
    ELSE (IF a % 2 # b % 2 THEN 1 ELSE 0) + 2 * BitXor(a \div 2, b \div 2)

\* `<<` and `>>` on u32.  The operands are octets shifted by at most 18
\* bits, below 2^26: no bit is shifted out.
Shl(a, n) == a * (2 ^ n)
Shr(a, n) == a \div (2 ^ n)

\* u8::leading_ones
RECURSIVE LeadingOnesFrom(_, _)
LeadingOnesFrom(b, bit) ==
    IF bit < 0 THEN 0
    ELSE IF (b \div (2 ^ bit)) % 2 = 1 THEN 1 + LeadingOnesFrom(b, bit - 1)
    ELSE 0

leading_ones(b) == LeadingOnesFrom(b, 7)

-----------------------------------------------------------------------------
(* The UTF-8 helpers of src/utf8/mod.rs and of core that the string uses.   *)

MASK == 252

\* utf8_char_len counting the leading ones of the prefix as it is given.
utf8_char_len_unmasked(prefix) ==
    IF prefix <= 127 THEN 1 ELSE leading_ones(prefix)

\* The condition utf8_char_len asserts in a debug build: past the first arm
\* of the match, the masked prefix is not 0b10000000.
utf8_char_len_asserts(prefix) ==
    prefix <= 127 \/ BitAnd(prefix, MASK) # 128

\* utf8_char_len(prefix).  The debug_assert! that the masked prefix is not
\* 0b10000000 is compiled out of release builds; the string only passes
\* leading octets.
utf8_char_len(prefix) ==
    IF prefix <= 127 THEN 1 ELSE leading_ones(BitAnd(prefix, MASK))

\* char::encode_utf8
encode_utf8(c) ==
    IF c < 128 THEN <<c>>
    ELSE IF c < 2048 THEN
        << BitOr(BitAnd(Shr(c, 6), 31), 192),
           BitOr(BitAnd(c, 63), 128) >>
    ELSE IF c < 65536 THEN
        << BitOr(BitAnd(Shr(c, 12), 15), 224),
           BitOr(BitAnd(Shr(c, 6), 63), 128),
           BitOr(BitAnd(c, 63), 128) >>
    ELSE
        << BitOr(BitAnd(Shr(c, 18), 7), 240),
           BitOr(BitAnd(Shr(c, 12), 63), 128),
           BitOr(BitAnd(Shr(c, 6), 63), 128),
           BitOr(BitAnd(c, 63), 128) >>

\* char::from_u32(c).is_some()
IsScalar(c) == c >= 0 /\ c <= 1114111 /\ ~(c >= 55296 /\ c <= 57343)

\* Every octet with the high bit set taken for a continuation octet.
IsContinuation_high(o) == o >= 128

\* An octet of the form 10xxxxxx.
IsContinuation(o) == o >= 128 /\ o < 192

\* A boundary test that takes any offset inside the slice.
str_is_char_boundary_any(bytes, index) ==
    IF index = 0 THEN TRUE
    ELSE IF index >= Len(bytes) THEN index = Len(bytes)
    ELSE TRUE

\* str::is_char_boundary on a string slice (a sequence of octets).
str_is_char_boundary(bytes, index) ==
    IF index = 0 THEN TRUE
    ELSE IF index >= Len(bytes) THEN index = Len(bytes)
    ELSE ~IsContinuation(bytes[index + 1])

\* The arms of decode_utf8's match with the 2-octet arm leaving the marker
\* of the leading octet in place.
assemble_lead_unstripped(n, o) ==
    IF n = 1 THEN o[1]
    ELSE IF n = 2 THEN
        BitOr(Shl(o[1], 6), BitXor(o[2], 128))
    ELSE IF n = 3 THEN
        BitOr(BitOr(Shl(BitXor(o[1], 224), 12), Shl(BitXor(o[2], 128), 6)),
              BitXor(o[3], 128))
    ELSE
        BitOr(BitOr(BitOr(Shl(BitXor(o[1], 240), 18), Shl(BitXor(o[2], 128), 12)),
                    Shl(BitXor(o[3], 128), 6)),
              BitXor(o[4], 128))

\* The arms of decode_utf8's match with the 3-octet arm stripping the marker
\* of a 4-octet leading octet.
assemble_wrong_marker(n, o) ==
    IF n = 1 THEN o[1]
    ELSE IF n = 2 THEN
        BitOr(Shl(BitXor(o[1], 192), 6), BitXor(o[2], 128))
    ELSE IF n = 3 THEN
        BitOr(BitOr(Shl(BitXor(o[1], 240), 12), Shl(BitXor(o[2], 128), 6)),
              BitXor(o[3], 128))
    ELSE
        BitOr(BitOr(BitOr(Shl(BitXor(o[1], 240), 18), Shl(BitXor(o[2], 128), 12)),
                    Shl(BitXor(o[3], 128), 6)),
              BitXor(o[4], 128))

\* The arms of decode_utf8's match: the scalar value of the n octets o.
assemble(n, o) ==
    IF n = 1 THEN o[1]
    ELSE IF n = 2 THEN
        BitOr(Shl(BitXor(o[1], 192), 6), BitXor(o[2], 128))
    ELSE IF n = 3 THEN
        BitOr(BitOr(Shl(BitXor(o[1], 224), 12), Shl(BitXor(o[2], 128), 6)),
              BitXor(o[3], 128))
    ELSE
        BitOr(BitOr(BitOr(Shl(BitXor(o[1], 240), 18), Shl(BitXor(o[2], 128), 12)),
                    Shl(BitXor(o[3], 128), 6)),
              BitXor(o[4], 128))

\* decode_utf8(buf, index): [kind, c, len].  kind is "ok", or "panic" when
\* the assertion, the index buf[0] or the unreachable!() arm trips.
decode_utf8(bytes, index) ==
    IF ~str_is_char_boundary(bytes, index) THEN [kind |-> "panic", c |-> 0, len |-> 0]
    ELSE IF index >= Len(bytes) THEN [kind |-> "panic", c |-> 0, len |-> 0]
    ELSE
        LET rest   == SubSeq(bytes, index + 1, Len(bytes))
            prefix == rest[1]
            n      == utf8_char_len(prefix)
        IN  IF n >= 1 /\ n <= 4 /\ Len(rest) >= n
            THEN [kind |-> "ok", c |-> assemble(n, rest), len |-> n]
            ELSE [kind |-> "panic", c |-> 0, len |-> 0]

\* core::str::validations::utf8_char_width: the table UTF8_CHAR_WIDTH.
utf8_char_width(first) ==
    IF first < 128 THEN 1
    ELSE IF first >= 194 /\ first <= 223 THEN 2
    ELSE IF first >= 224 /\ first <= 239 THEN 3
    ELSE IF first >= 240 /\ first <= 244 THEN 4
    ELSE 0

\* The (first, second) pairs run_utf8_validation accepts for a 3-octet and
\* a 4-octet sequence.
SecondOk3(first, second) ==
    \/ first = 224 /\ second >= 160 /\ second <= 191
    \/ first >= 225 /\ first <= 236 /\ second >= 128 /\ second <= 191
    \/ first = 237 /\ second >= 128 /\ second <= 159
    \/ first >= 238 /\ first <= 239 /\ second >= 128 /\ second <= 191

SecondOk4(first, second) ==
    \/ first = 240 /\ second >= 144 /\ second <= 191
    \/ first >= 241 /\ first <= 243 /\ second >= 128 /\ second <= 191
    \/ first = 244 /\ second >= 128 /\ second <= 143

\* core::str::from_utf8(v) scanning from `index`: -1 for Ok, otherwise
\* Utf8Error::valid_up_to(), the offset at which the rejected sequence
\* starts.
RECURSIVE run_utf8_validation(_, _)
run_utf8_validation(v, index) ==
    IF index >= Len(v) THEN -1
    ELSE
        LET first == v[index + 1]
            w     == utf8_char_width(first)
            has(k) == index + k < Len(v)
            at(k)  == v[index + k + 1]
        IN  IF first < 128 THEN run_utf8_validation(v, index + 1)
            ELSE IF w = 2 THEN
                IF has(1) /\ IsContinuation(at(1))
                THEN run_utf8_validation(v, index + 2) ELSE index
            ELSE IF w = 3 THEN
                IF /\ has(1) /\ SecondOk3(first, at(1))
                   /\ has(2) /\ IsContinuation(at(2))
                THEN run_utf8_validation(v, index + 3) ELSE index
            ELSE IF w = 4 THEN
                IF /\ has(1) /\ SecondOk4(first, at(1))
                   /\ has(2) /\ IsContinuation(at(2))
                   /\ has(3) /\ IsContinuation(at(3))
                THEN run_utf8_validation(v, index + 4) ELSE index
            ELSE index

-----------------------------------------------------------------------------
(* The string: src/string/mod.rs.                                           *)

\* [0x00; n]
Zeroed(n) == [i \in 0 .. n - 1 |-> 0]

\* String::as_bytes / String::as_str: the octets [0, len).
as_bytes(b, l) == [i \in 1 .. l |-> b[i - 1]]

\* String::is_char_boundary
is_char_boundary(b, l, index) == str_is_char_boundary(as_bytes(b, l), index)

\* A copy that walks forward one octet at a time, reading what it wrote.
RECURSIVE copy_forward(_, _, _, _)
copy_forward(b, src, dst, count) ==
    IF count = 0 THEN b
    ELSE copy_forward([b EXCEPT ![dst] = b[src]], src + 1, dst + 1, count - 1)

\* A copy that walks backward one octet at a time, reading what it wrote.
RECURSIVE copy_backward(_, _, _, _)
copy_backward(b, src, dst, count) ==
    IF count = 0 THEN b
    ELSE copy_backward([b EXCEPT ![dst + count - 1] = b[src + count - 1]],
                       src, dst, count - 1)

\* core::ptr::copy within the buffer: `count` octets from offset src to
\* offset dst, every octet read before any is written (memmove).
copy(b, src, dst, count) ==
    [j \in DOMAIN b |->
        IF j >= dst /\ j < dst + count THEN b[j - dst + src] ELSE b[j]]

\* core::ptr::copy_nonoverlapping from a string slice into the buffer at
\* offset dst.
copy_nonoverlapping(s, b, dst) ==
    [j \in DOMAIN b |->
        IF j >= dst /\ j < dst + Len(s) THEN s[j - dst + 1] ELSE b[j]]

\* What a call leaves behind: its outcome, the buffer, the length, the
\* character it returned and the fields of the error it returned.
Outcome(k, b, l) ==
    [kind |-> k, buf |-> b, len |-> l, val |-> -1,
     remaining |-> -1, count |-> -1, value |-> -1, eindex |-> -1]

\* String::insert_str with the capacity test dropped.
insert_str_unchecked(b, l, index, s) ==
    IF ~is_char_boundary(b, l, index) THEN Outcome("panic", b, l)
    ELSE
        LET shifted == IF index < l
                       THEN copy(b, index, index + Len(s), l - index) ELSE b
        IN  Outcome("ok", copy_nonoverlapping(s, shifted, index), l + Len(s))

\* String::insert_str reporting the whole capacity as remaining.
insert_str_remaining_n(b, l, index, s) ==
    IF ~is_char_boundary(b, l, index) THEN Outcome("panic", b, l)
    ELSE IF l + Len(s) > cap THEN
        [Outcome("err", b, l) EXCEPT !.remaining = cap, !.count = Len(s)]
    ELSE
        LET shifted == IF index < l
                       THEN copy(b, index, index + Len(s), l - index) ELSE b
        IN  Outcome("ok", copy_nonoverlapping(s, shifted, index), l + Len(s))

\* String::insert_str testing the capacity before the boundary.
insert_str_capacity_first(b, l, index, s) ==
    IF l + Len(s) > cap THEN
        [Outcome("err", b, l) EXCEPT !.remaining = cap - l, !.count = Len(s)]
    ELSE IF ~is_char_boundary(b, l, index) THEN Outcome("panic", b, l)
    ELSE
        LET shifted == IF index < l
                       THEN copy(b, index, index + Len(s), l - index) ELSE b
        IN  Outcome("ok", copy_nonoverlapping(s, shifted, index), l + Len(s))

\* String::insert_str(index, s).  old_len.checked_add(s_len) cannot overflow
\* usize: both are lengths of live objects.
insert_str(b, l, index, s) ==
    IF ~is_char_boundary(b, l, index) THEN Outcome("panic", b, l)
    ELSE
        LET s_len   == Len(s)
            old_len == l
            new_len == old_len + s_len
        IN  IF new_len > cap THEN
                [Outcome("err", b, l) EXCEPT !.remaining = cap - old_len,
                                             !.count = s_len]
            ELSE
                LET shifted == IF index < old_len
                               THEN copy(b, index, index + s_len, old_len - index)
                               ELSE b
                IN  Outcome("ok", copy_nonoverlapping(s, shifted, index), new_len)

\* String::insert(index, c)
insert(b, l, index, c) == insert_str(b, l, index, encode_utf8(c))

\* String::push(c)
push(b, l, c) == insert(b, l, l, c)

\* String::push_str(s)
push_str(b, l, s) == insert_str(b, l, l, s)

\* String::remove(index)
remove(b, l, index) ==
    LET old_len == l IN
    IF ~(index < old_len) THEN Outcome("panic", b, l)
    ELSE IF ~is_char_boundary(b, l, index) THEN Outcome("panic", b, l)
    ELSE
        LET d == decode_utf8(as_bytes(b, l), index) IN
        IF d.kind # "ok" THEN Outcome("panic", b, l)
        ELSE
            LET c_len   == d.len
                next    == index + c_len
                new_len == old_len - c_len
                sifted  == IF next < old_len
                           THEN copy(b, next, index, old_len - next) ELSE b
            IN  [Outcome("char", sifted, new_len) EXCEPT !.val = d.c]

\* String::prev_char_boundary(index), for index <= len.
RECURSIVE prev_char_boundary_from(_, _)
prev_char_boundary_from(b, i) ==
    IF i > 0 /\ IsContinuation(b[i]) THEN prev_char_boundary_from(b, i - 1) ELSE i

\* String::prev_char_boundary stepping back one octet only.
prev_char_boundary_one(b, l, index) == IF index = 0 THEN 0 ELSE index - 1

prev_char_boundary(b, l, index) ==
    prev_char_boundary_from(b, IF index = 0 THEN 0 ELSE index - 1)

\* String::pop without the test for the empty string.
pop_unchecked(b, l) ==
    LET r == remove(b, l, prev_char_boundary(b, l, l)) IN
    IF r.kind = "char" THEN [r EXCEPT !.kind = "some"] ELSE r

\* String::pop()
pop(b, l) ==
    IF l = 0 THEN Outcome("none", b, l)
    ELSE
        LET r == remove(b, l, prev_char_boundary(b, l, l)) IN
        IF r.kind = "char" THEN [r EXCEPT !.kind = "some"] ELSE r

\* String::truncate asserting only that the new length is not past the end.
truncate_in_range(b, l, new_len) ==
    IF new_len > l THEN Outcome("panic", b, l) ELSE Outcome("unit", b, new_len)

\* String::truncate clearing the octets it cuts off.
truncate_zeroing(b, l, new_len) ==
    IF ~is_char_boundary(b, l, new_len) THEN Outcome("panic", b, l)
    ELSE Outcome("unit", [j \in DOMAIN b |-> IF j >= new_len THEN 0 ELSE b[j]],
                 new_len)

\* String::truncate testing the boundary on the whole of buf instead of on
\* the octets [0, len).
truncate_storage(b, l, new_len) ==
    IF ~str_is_char_boundary([i \in 1 .. cap |-> b[i - 1]], new_len)
    THEN Outcome("panic", b, l)
    ELSE Outcome("unit", b, new_len)

\* String::truncate(len)
truncate(b, l, new_len) ==
    IF ~is_char_boundary(b, l, new_len) THEN Outcome("panic", b, l)
    ELSE Outcome("unit", b, new_len)

\* String::clear()
clear(b, l) == Outcome("unit", b, 0)

\* u8::to_ascii_uppercase / u8::to_ascii_lowercase
to_ascii_uppercase(o) == IF o >= 97 /\ o <= 122 THEN BitXor(o, 32) ELSE o
to_ascii_lowercase(o) == IF o >= 65 /\ o <= 90 THEN BitOr(o, 32) ELSE o

\* String::make_ascii_uppercase(): over as_mut_str(), the octets [0, len).
make_ascii_uppercase(b, l) ==
    Outcome("unit",
            [j \in DOMAIN b |-> IF j < l THEN to_ascii_uppercase(b[j]) ELSE b[j]], l)

\* String::make_ascii_lowercase()
make_ascii_lowercase(b, l) ==
    Outcome("unit",
            [j \in DOMAIN b |-> IF j < l THEN to_ascii_lowercase(b[j]) ELSE b[j]], l)

\* String::new()
new == Outcome("ok", Zeroed(cap), 0)

\* String::from_str_unchecked(s), for s.len() <= N.
from_str_unchecked(s) ==
    Outcome("ok", copy_nonoverlapping(s, Zeroed(cap), 0), Len(s))

\* String::from_str turning away a slice that fills the buffer exactly.
from_str_exclusive(s) ==
    IF Len(s) >= cap THEN
        [Outcome("err", Zeroed(cap), 0) EXCEPT !.remaining = cap, !.count = Len(s)]
    ELSE from_str_unchecked(s)

\* String::from_str(s)
from_str(s) ==
    IF Len(s) > cap THEN
        [Outcome("err", Zeroed(cap), 0) EXCEPT !.remaining = cap, !.count = Len(s)]
    ELSE from_str_unchecked(s)

\* String::from_utf8_unchecked(data), for M <= N.  With M < N the zeroed
\* [u8; N] is filled by <[u8]>::copy_from_slice(&data), which panics when
\* the two lengths differ.
from_utf8_unchecked(data) ==
    IF Len(data) = cap THEN Outcome("ok", copy_nonoverlapping(data, Zeroed(cap), 0), Len(data))
    ELSE Outcome("panic", Zeroed(cap), 0)

\* String::from_utf8(data), for M <= N.
from_utf8(data) ==
    LET i == run_utf8_validation(data, 0) IN
    IF i # -1 THEN
        [Outcome("err", Zeroed(cap), 0) EXCEPT !.value = data[i + 1], !.eindex = i]
    ELSE from_utf8_unchecked(data)

\* The loop of from_iter passing over a character that does not fit
\* instead of leaving the loop.
RECURSIVE from_iter_loop_skip(_, _)
from_iter_loop_skip(this, iter) ==
    IF iter = << >> THEN this
    ELSE LET r == push(this.buf, this.len, Head(iter)) IN
         IF r.kind = "err" THEN from_iter_loop_skip(this, Tail(iter))
         ELSE from_iter_loop_skip(Outcome("ok", r.buf, r.len), Tail(iter))

\* FromIterator<char>::from_iter: push until a push fails.
RECURSIVE from_iter_loop(_, _)
from_iter_loop(this, iter) ==
    IF iter = << >> THEN this
    ELSE LET r == push(this.buf, this.len, Head(iter)) IN
         IF r.kind = "err" THEN this
         ELSE from_iter_loop(Outcome("ok", r.buf, r.len), Tail(iter))

from_iter(iter) == from_iter_loop(new, iter)

\* Deref::deref over the whole of buf, whatever len is.
deref_whole(b, l) == [i \in 1 .. Cardinality(DOMAIN b) |-> b[i - 1]]

\* Deref::deref: as_str(), the string slice every comparison is made on.
deref(b, l) == as_bytes(b, l)

\* memcmp over the octets i..n of two slices: the difference of the first
\* pair of octets that differ, 0 if none does.
RECURSIVE compare_bytes(_, _, _, _)
compare_bytes(a, b, i, n) ==
    IF i > n THEN 0
    ELSE IF a[i] # b[i] THEN a[i] - b[i]
    ELSE compare_bytes(a, b, i + 1, n)

\* <str as Ord>::cmp: the octets of the common length are compared, then
\* the lengths.
str_cmp(a, b) ==
    LET l     == IF Len(a) < Len(b) THEN Len(a) ELSE Len(b)
        order == compare_bytes(a, b, 1, l)
        diff  == IF order = 0 THEN Len(a) - Len(b) ELSE order
    IN  IF diff < 0 THEN "Less" ELSE IF diff = 0 THEN "Equal" ELSE "Greater"

\* <str as PartialEq>::eq: equal lengths and no octet that differs.
str_eq(a, b) == Len(a) = Len(b) /\ compare_bytes(a, b, 1, Len(a)) = 0

\* PartialEq<String<M>> / PartialOrd<String<M>> for String<N>, self being
\* (sb, sl) and other (ob, ol).
eq(sb, sl, ob, ol) == str_eq(deref(sb, sl), deref(ob, ol))
partial_cmp(sb, sl, ob, ol) == str_cmp(deref(sb, sl), deref(ob, ol))
lt(sb, sl, ob, ol) == str_cmp(deref(sb, sl), deref(ob, ol)) = "Less"
le(sb, sl, ob, ol) == str_cmp(deref(sb, sl), deref(ob, ol)) \in {"Less", "Equal"}
gt(sb, sl, ob, ol) == str_cmp(deref(sb, sl), deref(ob, ol)) = "Greater"
ge(sb, sl, ob, ol) == str_cmp(deref(sb, sl), deref(ob, ol)) \in {"Greater", "Equal"}

\* oct, <usize as Encode>::encode: a usize goes on the wire as a u16, least
\* significant octet first; a value above u16::MAX is an error.
encode_usize(n) ==
    IF n > 65535 THEN [kind |-> "err", data |-> << >>]
    ELSE [kind |-> "ok", data |-> <<n % 256, n \div 256>>]

\* oct, <str as Encode>::encode: the length, then the octets.
encode_str(s) ==
    LET n == encode_usize(Len(s)) IN
    IF n.kind # "ok" THEN n ELSE [kind |-> "ok", data |-> n.data \o s]

\* Encode for String<N>::encode: (**self).encode(output), the output having
\* room for MAX_ENCODED_SIZE octets.
encode(b, l) == encode_str(deref(b, l))

\* oct, <usize as Decode>::decode on the first two octets of the input.
decode_usize(input) == input[1] + 256 * input[2]

\* The octets String::decode takes from the input; Input::read_into panics
\* when the input is shorter than what is asked of it.
decode_read(input) ==
    IF Len(input) < 2 THEN 0
    ELSE IF decode_usize(input) > cap THEN 2
    ELSE IF Len(input) < 2 + decode_usize(input) THEN 2
    ELSE 2 + decode_usize(input)

\* Decode for String<N>::decode turning away a string that fills buf.
decode_exclusive(input) ==
    IF Len(input) < 2 THEN Outcome("panic", Zeroed(cap), 0)
    ELSE
        LET l == decode_usize(input) IN
        IF l >= cap THEN
            [Outcome("err", Zeroed(cap), 0) EXCEPT !.remaining = cap, !.count = l]
        ELSE IF Len(input) < 2 + l THEN Outcome("panic", Zeroed(cap), 0)
        ELSE
            LET data == SubSeq(input, 3, 2 + l)
                b    == copy_nonoverlapping(data, Zeroed(cap), 0)
                i    == run_utf8_validation(data, 0)
            IN  IF i # -1 THEN
                    [Outcome("err", Zeroed(cap), 0) EXCEPT !.value = b[i], !.eindex = i]
                ELSE Outcome("ok", b, l)

\* Decode for String<N>::decode(input).  An Err with remaining and count is
\* BadLength(LengthError), one with value and eindex BadItem(Utf8Error).
decode(input) ==
    IF Len(input) < 2 THEN Outcome("panic", Zeroed(cap), 0)
    ELSE
        LET l == decode_usize(input) IN
        IF l > cap THEN
            [Outcome("err", Zeroed(cap), 0) EXCEPT !.remaining = cap, !.count = l]
        ELSE IF Len(input) < 2 + l THEN Outcome("panic", Zeroed(cap), 0)
        ELSE
            LET data == SubSeq(input, 3, 2 + l)
                b    == copy_nonoverlapping(data, Zeroed(cap), 0)
                i    == run_utf8_validation(data, 0)
            IN  IF i # -1 THEN
                    [Outcome("err", Zeroed(cap), 0) EXCEPT !.value = b[i], !.eindex = i]
                ELSE Outcome("ok", b, l)

-----------------------------------------------------------------------------------------------------------------------------------------------------
(* Inputs.                                                                  *)

\* 'a', U+00F1, U+5149, U+1F54B: one character of each encoded length.
Chars == {97, 241, 20809, 128331}

\* Octets the arrays handed to from_utf8 are made of: 'a', a 2-octet lead
\* with a continuation, and 0xF7, which leads nothing.
Utf8Octets == {97, 195, 177, 247}

\* Octets of the arrays the constructor under test is given: 'A'; the leads
\* 0xC3, 0xE5, 0xED, 0xF0; the continuations 0x85, 0xAC, 0xB1; and 0xF7.
ArgOctets == {65, 195, 229, 237, 240, 133, 172, 177, 247}

SeqsUpTo(S, n) == UNION {[1 .. k -> S] : k \in 0 .. n}

RECURSIVE EncodeStr(_)
EncodeStr(cs) == IF cs = << >> THEN << >> ELSE encode_utf8(Head(cs)) \o EncodeStr(Tail(cs))

\* The string slices of at most n characters over the characters S.
Strs(S, n) == {EncodeStr(cs) : cs \in SeqsUpTo(S, n)}

\* The string slices handed to insert_str / push_str.
StrArgs ==
    {EncodeStr(cs) : cs \in {<< >>, <<97>>, <<20809>>, <<241, 97>>, <<97, 128331>>}}

-----------------------------------------------------------------------------
(* The state machine.                                                       *)

NoRet ==
    [op |-> "none", kind |-> "none", index |-> -1, s |-> << >>, c |-> -1,
     val |-> -1, remaining |-> -1, count |-> -1, value |-> -1, eindex |-> -1]

Ret(opname, r, index, s, c) ==
    [op |-> opname, kind |-> r.kind, index |-> index, s |-> s, c |-> c,
     val |-> r.val, remaining |-> r.remaining, count |-> r.count,
     value |-> r.value, eindex |-> r.eindex]

NoMemo == [stage |-> "none", index |-> -1, c |-> -1, buf |-> << >>, len |-> 0]

run == <<base, stk, top>>

\* No string has been kept, nothing has been compared.
NoOther == [kept |-> FALSE, cap |-> 0, buf |-> << >>, len |-> 0]

NoCmp ==
    [eq |-> FALSE, partial_cmp |-> "none",
     lt |-> FALSE, le |-> FALSE, gt |-> FALSE, ge |-> FALSE]

aux == <<other, cmp, wire>>

NoArg == [kind |-> "none", data |-> << >>]

\* What the constructor under test may be given by an instance of capacity
\* n: a string slice of any length up to n + 2 octets, or an array [u8; M]
\* with M <= n (a larger M does not compile).
CtorArgs(n) ==
    {[kind |-> "str", data |-> s] : s \in {q \in Strs(Chars, n + 1) : Len(q) <= n + 2}}
    \cup {[kind |-> "array", data |-> d] : d \in SeqsUpTo(ArgOctets, n)}

InitWith(A) ==
    /\ cap \in 0 .. MaxCap
    /\ buf = Zeroed(cap)
    /\ len = 0
    /\ pc = "start"
    /\ ret = NoRet
    /\ prev = [buf |-> buf, len |-> 0]
    /\ base = [buf |-> buf, len |-> 0]
    /\ stk = << >>
    /\ top = 0
    /\ memo = NoMemo
    /\ arg \in A
    /\ other = NoOther
    /\ cmp = NoCmp
    /\ wire = << >>

Init == InitWith({NoArg})

\* A constructor returned r: the value exists when it returned Ok.
Construct(opname, r, s) ==
    /\ pc = "start"
    /\ buf' = r.buf
    /\ len' = r.len
    /\ pc' = IF r.kind = "ok" THEN "returned"
             ELSE IF r.kind = "err" THEN "failed" ELSE "aborted"
    /\ ret' = Ret(opname, r, -1, s, -1)
    /\ prev' = [buf |-> r.buf, len |-> r.len]
    /\ UNCHANGED <<cap, arg>>

\* A method of the string returned (or panicked with) r.
Call(opname, r, index, s, c) ==
    /\ pc = "idle"
    /\ buf' = r.buf
    /\ len' = r.len
    /\ pc' = IF r.kind = "panic" THEN "aborted" ELSE "returned"
    /\ ret' = Ret(opname, r, index, s, c)
    /\ prev' = [buf |-> buf, len |-> len]
    /\ UNCHANGED <<cap, arg>>

\* The caller takes the result of the call that returned.
Discard ==
    /\ pc = "returned"
    /\ pc' = "idle"
    /\ ret' = NoRet
    /\ prev' = [buf |-> buf, len |-> len]
    /\ UNCHANGED <<cap, buf, len, base, stk, top, memo, arg, aux>>

New ==
    /\ pc = "start"
    /\ Construct("new", new, << >>)
    /\ UNCHANGED <<run, memo, aux>>

FromStr ==
    /\ pc = "start"
    /\ \E s \in Strs(Chars, cap + 1) :
        Len(s) <= cap + 1 /\ Construct("from_str", from_str(s), s)
    /\ UNCHANGED <<run, memo, aux>>

FromUtf8 ==
    /\ pc = "start"
    /\ \E data \in SeqsUpTo(Utf8Octets, cap) :
        Construct("from_utf8", from_utf8(data), data)
    /\ UNCHANGED <<run, memo, aux>>

FromIter ==
    /\ pc = "start"
    /\ \E cs \in SeqsUpTo(Chars, MaxIterChars) :
        Construct("from_iter", from_iter(cs), EncodeStr(cs))
    /\ UNCHANGED <<run, memo, aux>>

Push ==
    /\ pc = "idle"
    /\ \E c \in Chars : Call("push", push(buf, len, c), len, encode_utf8(c), c)
    /\ UNCHANGED <<run, memo, aux>>

PushStr ==
    /\ pc = "idle"
    /\ \E s \in StrArgs : Call("push_str", push_str(buf, len, s), len, s, -1)
    /\ UNCHANGED <<run, memo, aux>>

Insert ==
    /\ pc = "idle"
    /\ \E i \in 0 .. cap + 1, c \in Chars :
        Call("insert", insert(buf, len, i, c), i, encode_utf8(c), c)
    /\ UNCHANGED <<run, memo, aux>>

InsertStr ==
    /\ pc = "idle"
    /\ \E i \in 0 .. cap + 1, s \in StrArgs :
        Call("insert_str", insert_str(buf, len, i, s), i, s, -1)
    /\ UNCHANGED <<run, memo, aux>>

Pop ==
    /\ pc = "idle"
    /\ Call("pop", pop(buf, len), -1, << >>, -1)
    /\ UNCHANGED <<run, memo, aux>>

Remove ==
    /\ pc = "idle"
    /\ \E i \in 0 .. cap + 1 : Call("remove", remove(buf, len, i), i, << >>, -1)
    /\ UNCHANGED <<run, memo, aux>>

IsCharBoundary ==
    /\ pc = "idle"
    /\ \E i \in 0 .. cap + 1 :
        Call("is_char_boundary",
             Outcome(IF is_char_boundary(buf, len, i) THEN "true" ELSE "false",
                     buf, len),
             i, << >>, -1)
    /\ UNCHANGED <<run, memo, aux>>

Truncate ==
    /\ pc = "idle"
    /\ \E n \in 0 .. cap + 1 : Call("truncate", truncate(buf, len, n), n, << >>, -1)
    /\ UNCHANGED <<run, memo, aux>>

Clear ==
    /\ pc = "idle"
    /\ Call("clear", clear(buf, len), -1, << >>, -1)
    /\ UNCHANGED <<run, memo, aux>>

MakeAsciiUppercase ==
    /\ pc = "idle"
    /\ Call("make_ascii_uppercase", make_ascii_uppercase(buf, len), -1, << >>, -1)
    /\ UNCHANGED <<run, memo, aux>>

MakeAsciiLowercase ==
    /\ pc = "idle"
    /\ Call("make_ascii_lowercase", make_ascii_lowercase(buf, len), -1, << >>, -1)
    /\ UNCHANGED <<run, memo, aux>>

Next ==
    \/ New
    \/ FromStr
    \/ FromUtf8
    \/ FromIter
    \/ Discard
    \/ Push
    \/ PushStr
    \/ Insert
    \/ InsertStr
    \/ Pop
    \/ Remove
    \/ IsCharBoundary
    \/ Truncate
    \/ Clear
    \/ MakeAsciiUppercase
    \/ MakeAsciiLowercase

Spec == Init /\ [][Next]_vars

-----------------------------------------------------------------------------
(* Runs of pushes and pops.  The caller keeps the characters of a run of   *)
(* pushes that all returned Ok, and counts the pops that follow; a push    *)
(* after a pop, a push that failed, or a pop with nothing left of the run  *)
(* starts a new run.                                                       *)

RunNew ==
    /\ pc = "start"
    /\ Construct("new", new, << >>)
    /\ base' = [buf |-> new.buf, len |-> new.len]
    /\ UNCHANGED <<stk, top, memo, aux>>

RunFromStr ==
    /\ pc = "start"
    /\ \E s \in Strs(Chars, cap) :
        /\ Len(s) <= cap
        /\ Construct("from_str", from_str(s), s)
        /\ base' = [buf |-> from_str(s).buf, len |-> from_str(s).len]
    /\ UNCHANGED <<stk, top, memo, aux>>

RunPush ==
    /\ pc = "idle"
    /\ \E c \in Chars :
        /\ Call("push", push(buf, len, c), len, encode_utf8(c), c)
        /\ IF push(buf, len, c).kind = "ok" /\ top = Len(stk) THEN
                /\ stk' = Append(stk, c)
                /\ top' = top + 1
                /\ UNCHANGED base
           ELSE IF push(buf, len, c).kind = "ok" THEN
                /\ base' = [buf |-> buf, len |-> len]
                /\ stk' = <<c>>
                /\ top' = 1
           ELSE /\ base' = [buf |-> buf, len |-> len]
                /\ stk' = << >>
                /\ top' = 0
    /\ UNCHANGED <<memo, aux>>

RunPop ==
    /\ pc = "idle"
    /\ Call("pop", pop(buf, len), -1, << >>, -1)
    /\ IF top > 0 THEN
            /\ top' = top - 1
            /\ UNCHANGED <<base, stk>>
       ELSE /\ base' = [buf |-> pop(buf, len).buf, len |-> pop(buf, len).len]
            /\ stk' = << >>
            /\ top' = 0
    /\ UNCHANGED <<memo, aux>>

NextRun ==
    \/ RunNew
    \/ RunFromStr
    \/ RunPush
    \/ RunPop
    \/ Discard

SpecRun == Init /\ [][NextRun]_vars

-----------------------------------------------------------------------------
(* An insert followed at once by the remove at the same index.              *)

MemoInsert ==
    /\ pc = "idle"
    /\ \E i \in 0 .. cap + 1, c \in Chars :
        /\ Call("insert", insert(buf, len, i, c), i, encode_utf8(c), c)
        /\ memo' = IF insert(buf, len, i, c).kind = "ok"
                   THEN [stage |-> "inserted", index |-> i, c |-> c,
                         buf |-> buf, len |-> len]
                   ELSE NoMemo
    /\ UNCHANGED <<run, aux>>

MemoRemove ==
    /\ pc = "idle"
    /\ \E i \in 0 .. cap + 1 :
        /\ Call("remove", remove(buf, len, i), i, << >>, -1)
        /\ memo' = IF memo.stage = "inserted" /\ i = memo.index
                   THEN [memo EXCEPT !.stage = "removed"]
                   ELSE NoMemo
    /\ UNCHANGED <<run, aux>>

NextMemo ==
    \/ New
    \/ FromStr
    \/ MemoInsert
    \/ MemoRemove
    \/ Discard

SpecMemo == Init /\ [][NextMemo]_vars

-----------------------------------------------------------------------------
(* A constructor applied to a given input.                                  *)

InitCtor == \E n \in 0 .. MaxCap : cap = n /\ InitWith(CtorArgs(n))

CtorFromStr ==
    /\ pc = "start"
    /\ arg.kind = "str"
    /\ Construct("from_str", from_str(arg.data), arg.data)
    /\ UNCHANGED <<run, memo, aux>>

CtorFromUtf8 ==
    /\ pc = "start"
    /\ arg.kind = "array"
    /\ Construct("from_utf8", from_utf8(arg.data), arg.data)
    /\ UNCHANGED <<run, memo, aux>>

NextCtor ==
    \/ CtorFromStr
    \/ CtorFromUtf8

SpecCtor == InitCtor /\ [][NextCtor]_vars

-----------------------------------------------------------------------------
(* Two strings compared.  A string a: String<N> is built and kept, a       *)
(* second string b: String<M> is built, and a is compared with b.          *)

\* from_str of a string slice of at most two characters.
CmpFromStr ==
    /\ pc = "start"
    /\ \E s \in Strs(Chars, 2) : Construct("from_str", from_str(s), s)
    /\ UNCHANGED <<run, memo, aux>>

\* The finished string is bound to `a`; a String<M> is about to be built.
Keep ==
    /\ pc = "idle"
    /\ ~other.kept
    /\ other' = [kept |-> TRUE, cap |-> cap, buf |-> buf, len |-> len]
    /\ \E m \in 0 .. MaxCap :
        /\ cap' = m
        /\ buf' = Zeroed(m)
        /\ prev' = [buf |-> Zeroed(m), len |-> 0]
    /\ len' = 0
    /\ pc' = "start"
    /\ ret' = NoRet
    /\ UNCHANGED <<run, memo, arg, cmp, wire>>

\* a == b, a.partial_cmp(&b), a < b, a <= b, a > b, a >= b.
Compare ==
    /\ pc = "idle"
    /\ other.kept
    /\ cmp' = [eq          |-> eq(other.buf, other.len, buf, len),
               partial_cmp |-> partial_cmp(other.buf, other.len, buf, len),
               lt          |-> lt(other.buf, other.len, buf, len),
               le          |-> le(other.buf, other.len, buf, len),
               gt          |-> gt(other.buf, other.len, buf, len),
               ge          |-> ge(other.buf, other.len, buf, len)]
    /\ pc' = "compared"
    /\ UNCHANGED <<cap, buf, len, ret, prev, run, memo, arg, other, wire>>

NextCmp ==
    \/ New
    \/ CmpFromStr
    \/ Pop
    \/ Truncate
    \/ Clear
    \/ Discard
    \/ Keep
    \/ Compare

SpecCmp == Init /\ [][NextCmp]_vars

-----------------------------------------------------------------------------
(* The binary codec.  A string is built and encoded onto the stream, and a *)
(* String<N> is decoded from the stream; a String<N> is also decoded from  *)
(* input that no encode wrote.                                             *)

\* The lengths and octets of the inputs handed to decode directly.
DecodeInputs(n) ==
    {<<l, 0>> \o d : l \in 0 .. n + 1, d \in SeqsUpTo(Utf8Octets, n)}

DecodeFrom ==
    /\ pc = "start"
    /\ \E input \in DecodeInputs(cap) \cup {<< >>, <<1>>, <<0, 1>>} :
        Construct("decode", decode(input), input)
    /\ UNCHANGED <<run, memo, aux>>

Encode ==
    /\ pc = "idle"
    /\ LET r == encode(buf, len) IN
        /\ wire' = wire \o r.data
        /\ pc' = IF r.kind = "ok" THEN "encoded" ELSE "failed"
        /\ ret' = [NoRet EXCEPT !.op = "encode", !.kind = r.kind]
    /\ prev' = [buf |-> buf, len |-> len]
    /\ UNCHANGED <<cap, buf, len, run, memo, arg, other, cmp>>

\* String::<N>::decode on what encode wrote: the string read replaces the
\* one that was encoded, which prev keeps.
Decode ==
    /\ pc = "encoded"
    /\ LET r == decode(wire) IN
        /\ buf' = r.buf
        /\ len' = r.len
        /\ pc' = IF r.kind = "ok" THEN "returned"
                 ELSE IF r.kind = "err" THEN "failed" ELSE "aborted"
        /\ ret' = Ret("decode", r, -1, wire, -1)
    /\ wire' = SubSeq(wire, decode_read(wire) + 1, Len(wire))
    /\ prev' = [buf |-> buf, len |-> len]
    /\ UNCHANGED <<cap, run, memo, arg, other, cmp>>

NextCodec ==
    \/ New
    \/ FromStr
    \/ DecodeFrom
    \/ Push
    \/ Pop
    \/ Truncate
    \/ Discard
    \/ Encode
    \/ Decode

SpecCodec == Init /\ [][NextCodec]_vars

-----------------------------------------------------------------------------
(* The helpers of src/utf8/mod.rs applied to given inputs.                  *)

\* The least and the greatest scalar value of each encoded length, the
\* scalar values next to the surrogates, and those of the crate's tests.
Scalars ==
    {0, 127, 128, 177, 2047, 2048, 55295, 57344, 65010, 65535,
     65536, 128331, 1114111}

\* A string slice with an offset into it, or an octet.
Utf8Args ==
    {[kind |-> "text", chars |-> p[1], data |-> EncodeStr(p[1]), index |-> p[2]] :
        p \in {q \in SeqsUpTo(Scalars, MaxTextChars) \X (0 .. 4 * MaxTextChars + 1) :
                    q[2] <= Len(EncodeStr(q[1])) + 1}}
    \cup {[kind |-> "octet", chars |-> << >>, data |-> <<b>>, index |-> 0] :
        b \in 0 .. 255}

InitUtf8 == cap = 0 /\ InitWith(Utf8Args)

\* decode_utf8(buf, index): val is the character returned, count the length.
DecodeUtf8 ==
    /\ pc = "start"
    /\ arg.kind = "text"
    /\ LET d == decode_utf8(arg.data, arg.index) IN
        /\ pc' = IF d.kind = "ok" THEN "returned" ELSE "aborted"
        /\ ret' = [NoRet EXCEPT !.op = "decode_utf8", !.kind = d.kind,
                                !.index = arg.index, !.s = arg.data,
                                !.val = IF d.kind = "ok" THEN d.c ELSE -1,
                                !.count = IF d.kind = "ok" THEN d.len ELSE -1]
    /\ UNCHANGED <<cap, buf, len, prev, run, memo, arg, aux>>

\* utf8_char_len(prefix), in a debug or a release build: val is the length
\* returned.
Utf8CharLen ==
    /\ pc = "start"
    /\ arg.kind = "octet"
    /\ \E debug_assertions \in BOOLEAN :
        LET prefix == arg.data[1]
            fails  == debug_assertions /\ ~utf8_char_len_asserts(prefix)
        IN  /\ pc' = IF fails THEN "aborted" ELSE "returned"
            /\ ret' = [NoRet EXCEPT !.op = "utf8_char_len",
                                    !.kind = IF fails THEN "panic" ELSE "ok",
                                    !.s = arg.data,
                                    !.val = IF fails THEN -1
                                            ELSE utf8_char_len(prefix)]
    /\ UNCHANGED <<cap, buf, len, prev, run, memo, arg, aux>>

NextUtf8 ==
    \/ DecodeUtf8
    \/ Utf8CharLen

SpecUtf8 == InitUtf8 /\ [][NextUtf8]_vars

-----------------------------------------------------------------------------
(* The vocabulary of the properties: well-formed UTF-8, stated from the    *)
(* encoding, independently of decode_utf8 and of the validator.            *)

\* The length of the sequence a leading octet announces, 0 if it leads none.
SeqLenOfLead(o) ==
    IF o < 128 THEN 1
    ELSE IF o >= 192 /\ o < 224 THEN 2
    ELSE IF o >= 224 /\ o < 240 THEN 3
    ELSE IF o >= 240 /\ o < 248 THEN 4
    ELSE 0

\* The number a sequence of 1..4 octets spells, its markers subtracted.
ScalarOf(q) ==
    IF Len(q) = 1 THEN q[1]
    ELSE IF Len(q) = 2 THEN (q[1] - 192) * 64 + (q[2] - 128)
    ELSE IF Len(q) = 3 THEN (q[1] - 224) * 4096 + (q[2] - 128) * 64 + (q[3] - 128)
    ELSE (q[1] - 240) * 262144 + (q[2] - 128) * 4096 + (q[3] - 128) * 64 + (q[4] - 128)

\* q is the UTF-8 encoding of a Unicode scalar value.
IsEncoding(q) ==
    /\ Len(q) >= 1 /\ Len(q) <= 4
    /\ \A k \in 1 .. Len(q) : q[k] >= 0 /\ q[k] <= 255
    /\ IsScalar(ScalarOf(q))
    /\ encode_utf8(ScalarOf(q)) = q

\* q is a concatenation of encodings of scalar values.
RECURSIVE WellFormedUtf8(_)
WellFormedUtf8(q) ==
    IF q = << >> THEN TRUE
    ELSE LET k == SeqLenOfLead(q[1]) IN
         /\ k >= 1 /\ k <= Len(q)
         /\ IsEncoding(SubSeq(q, 1, k))
         /\ WellFormedUtf8(SubSeq(q, k + 1, Len(q)))

\* The character boundaries of well-formed q at or after offset i: where
\* its encodings start, and its end.
RECURSIVE BoundariesFrom(_, _)
BoundariesFrom(q, i) ==
    IF i >= Len(q) THEN {Len(q)}
    ELSE IF SeqLenOfLead(q[i + 1]) = 0 THEN {i}
    ELSE {i} \cup BoundariesFrom(q, i + SeqLenOfLead(q[i + 1]))

Boundaries(q) == BoundariesFrom(q, 0)

\* The encoding that starts at boundary i < Len(q) of well-formed q.
EncodingAt(q, i) == SubSeq(q, i + 1, i + SeqLenOfLead(q[i + 1]))

Content == as_bytes(buf, len)
Old == as_bytes(prev.buf, prev.len)
Exists == pc \in {"returned", "idle"}

-----------------------------------------------------------------------------
(* Properties.                                                              *)

\* C1: whenever the string exists -- after every constructor and method
\* that returned normally -- its length is between 0 and the capacity N.
C1_LengthWithinCapacity == Exists => (len >= 0 /\ len <= cap)

\* A full string that an insert_str has just filled by shifting a suffix.
C1_Witness ==
    /\ pc = "returned" /\ ret.op = "insert_str" /\ ret.kind = "ok"
    /\ cap >= 4 /\ len = cap /\ ret.index < prev.len

\* C2: whenever the string exists, the octets [0, len) are well-formed
\* UTF-8: a concatenation of complete 1..4-octet encodings.
C2_ContentWellFormed == Exists => WellFormedUtf8(Content)

\* A remove has closed a gap in front of a multi-octet character.
C2_Witness ==
    /\ pc = "returned" /\ ret.op = "remove" /\ ret.kind = "char"
    /\ ret.index < len /\ Content[ret.index + 1] >= 192

\* C3: insert_str(i, s) and insert(i, c) with i a boundary and
\* len + |s| <= N return Ok, the content becomes old[0..i] ++ s ++ old[i..],
\* and the length grows by |s|.
C3_InsertSplices ==
    (/\ pc \in {"returned", "aborted"}
     /\ ret.op \in {"insert", "insert_str"}
     /\ ret.index \in Boundaries(Old)
     /\ prev.len + Len(ret.s) <= cap)
    => /\ pc = "returned" /\ ret.kind = "ok"
       /\ len = prev.len + Len(ret.s)
       /\ Content = SubSeq(Old, 1, ret.index) \o ret.s
                        \o SubSeq(Old, ret.index + 1, prev.len)

\* The shifted suffix [i, L) and its destination [i+|s|, L+|s|) overlap.
C3_Witness ==
    /\ pc = "returned" /\ ret.op = "insert_str" /\ ret.kind = "ok"
    /\ Len(ret.s) > 0 /\ ret.index + Len(ret.s) < prev.len
    /\ Old[ret.index + 1] # Old[ret.index + 2]

\* C4: insert, insert_str, push and push_str at a boundary with
\* len + |s| > N return LengthError{remaining: N - len, count: |s|} and
\* leave the length and every octet of the storage as they were.
C4_OverflowRejected ==
    (/\ pc \in {"returned", "aborted"}
     /\ ret.op \in {"insert", "insert_str", "push", "push_str"}
     /\ ret.index \in Boundaries(Old)
     /\ prev.len + Len(ret.s) > cap)
    => /\ pc = "returned" /\ ret.kind = "err"
       /\ ret.remaining = cap - prev.len /\ ret.count = Len(ret.s)
       /\ len = prev.len /\ buf = prev.buf

\* N one-octet characters fill the string; the next push is rejected with
\* LengthError{remaining: 0, count: 1}.
C4_Witness ==
    /\ pc = "returned" /\ ret.op = "push" /\ ret.kind = "err"
    /\ cap >= 3 /\ Content = [k \in 1 .. cap |-> 97]
    /\ ret.remaining = 0 /\ ret.count = 1

\* C5: remove(i) at a boundary i < len returns the character whose k octets
\* start at i, the content becomes old[0..i] ++ old[i+k..], and the length
\* shrinks by k.
C5_RemoveCloses ==
    (/\ pc \in {"returned", "aborted"}
     /\ ret.op = "remove"
     /\ ret.index < prev.len
     /\ ret.index \in Boundaries(Old))
    => LET q == EncodingAt(Old, ret.index) IN
       /\ pc = "returned" /\ ret.kind = "char"
       /\ encode_utf8(ret.val) = q
       /\ len = prev.len - Len(q)
       /\ Content = SubSeq(Old, 1, ret.index)
                        \o SubSeq(Old, ret.index + Len(q) + 1, prev.len)

\* A character was removed from between a prefix and a suffix longer than
\* itself: the suffix and the gap it moves into overlap.
C5_Witness ==
    /\ pc = "returned" /\ ret.op = "remove" /\ ret.kind = "char"
    /\ ret.index > 0 /\ len - ret.index > prev.len - len
    /\ Content[ret.index + 1] >= 192

\* C6: remove(i) with i >= len, or with a continuation octet at i, panics:
\* it returns no character and leaves the string as it was.
C6_RemovePanics ==
    (/\ pc \in {"returned", "aborted"}
     /\ ret.op = "remove"
     /\ \/ ret.index >= prev.len
        \/ IsContinuation(prev.buf[ret.index]))
    => /\ pc = "aborted" /\ ret.kind = "panic" /\ ret.val = -1
       /\ len = prev.len /\ buf = prev.buf

\* remove(2) on a String<4> holding only U+5149.
C6_Witness ==
    /\ pc = "aborted" /\ ret.op = "remove" /\ ret.index = 2
    /\ cap = 4 /\ Content = encode_utf8(20809)

\* C7: after pushes c1..ck that all returned Ok, k pops return Some(ck),
\* ..., Some(c1) in that order, and the length and content are then those
\* from before the first push; a pop of an empty string returns None.
C7_PushPopStack ==
    /\ Exists =>
        Content = as_bytes(base.buf, base.len) \o EncodeStr(SubSeq(stk, 1, top))
    /\ (pc \in {"returned", "aborted"} /\ ret.op = "pop" /\ top < Len(stk)) =>
        (pc = "returned" /\ ret.kind = "some" /\ ret.val = stk[top + 1])
    /\ (pc \in {"returned", "aborted"} /\ ret.op = "pop" /\ prev.len = 0) =>
        (pc = "returned" /\ ret.kind = "none" /\ len = 0)

\* 'a' and U+00F1 were pushed onto a non-empty string and both popped
\* again: their octets lie beyond len.
C7_Witness ==
    /\ pc = "returned" /\ ret.op = "pop" /\ ret.val = 97
    /\ stk = <<97, 241>> /\ top = 0
    /\ base.len > 0 /\ len = base.len
    /\ buf[len] = 97 /\ buf[len + 1] = 195

\* C8: insert(i, x) that returns Ok followed at once by remove(i) returns x
\* and leaves the content and length as they were before the insert.
C8_InsertRemoveRestores ==
    (pc \in {"returned", "aborted"} /\ ret.op = "remove" /\ memo.stage = "removed") =>
        /\ pc = "returned" /\ ret.kind = "char" /\ ret.val = memo.c
        /\ len = memo.len
        /\ Content = as_bytes(memo.buf, memo.len)

\* U+00F1 was inserted in front of a suffix and removed again.
C8_Witness ==
    /\ pc = "returned" /\ ret.op = "remove" /\ memo.stage = "removed"
    /\ memo.c = 241 /\ memo.index > 0 /\ memo.index < memo.len

\* The length of the longest well-formed prefix of q.
LongestValidPrefix(q) ==
    CHOOSE k \in 0 .. Len(q) :
        /\ WellFormedUtf8(SubSeq(q, 1, k))
        /\ \A j \in k + 1 .. Len(q) : ~WellFormedUtf8(SubSeq(q, 1, j))

\* C9: from_str(s) succeeds iff |s| <= N; then the length is |s| and the
\* text is s; otherwise it returns LengthError{remaining: N, count: |s|}
\* and no string.
C9_FromStrFits ==
    ret.op = "from_str" =>
        IF Len(arg.data) <= cap
        THEN /\ pc = "returned" /\ ret.kind = "ok"
             /\ len = Len(arg.data) /\ Content = arg.data
        ELSE /\ pc = "failed" /\ ret.kind = "err"
             /\ ret.remaining = cap /\ ret.count = Len(arg.data)

\* U+1F54B fills a String<4> exactly.
C9_Witness ==
    /\ pc = "returned" /\ ret.op = "from_str"
    /\ cap = 4 /\ Content = encode_utf8(128331)

\* C10: for data: [u8; M] with M <= N, from_utf8(data) succeeds with length
\* M and content data iff data is well-formed UTF-8; otherwise it returns
\* Utf8Error{value, index} with index the length of the longest
\* well-formed prefix, index < M and value = data[index].
C10_FromUtf8Validates ==
    ret.op = "from_utf8" =>
        IF WellFormedUtf8(arg.data)
        THEN /\ pc = "returned" /\ ret.kind = "ok"
             /\ len = Len(arg.data) /\ Content = arg.data
        ELSE /\ pc = "failed" /\ ret.kind = "err"
             /\ ret.eindex = LongestValidPrefix(arg.data)
             /\ ret.eindex < Len(arg.data)
             /\ ret.value = arg.data[ret.eindex + 1]

\* The greatest element of a non-empty finite set of integers.
Greatest(S) == CHOOSE k \in S : \A j \in S : j <= k

\* C11: from_iter (collect) into capacity N appends the characters in order
\* and stops, without error, at the first one whose encoding would carry the
\* length past N: the result is the characters before that one and nothing
\* after it, even a later character that would still fit.
C11_FromIterStops ==
    ret.op = "from_iter" =>
        LET k == Greatest({j \in Boundaries(ret.s) : j <= cap}) IN
        /\ pc = "returned" /\ ret.kind = "ok"
        /\ len = k
        /\ Content = SubSeq(ret.s, 1, k)

\* 'a', U+1F54B, 'a' collected into a String<4>: U+1F54B does not fit, the
\* 'a' after it would.
C11_Witness ==
    /\ pc = "returned" /\ ret.op = "from_iter"
    /\ cap = 4 /\ ret.s = EncodeStr(<<97, 128331, 97>>)
    /\ Content = <<97>>

\* a comes before b in the lexicographic order of their octets.
LexLess(a, b) ==
    \E k \in 0 .. Len(a) :
        /\ k <= Len(b)
        /\ \A j \in 1 .. k : a[j] = b[j]
        /\ \/ k = Len(a) /\ k < Len(b)
           \/ k < Len(a) /\ k < Len(b) /\ a[k + 1] < b[k + 1]

LexOrder(a, b) ==
    IF a = b THEN "Equal" ELSE IF LexLess(a, b) THEN "Less" ELSE "Greater"

\* C12: for a: String<N> and b: String<M>, a == b and partial_cmp, lt, le,
\* gt, ge are the octet-wise lexicographic comparison of a's octets [0, len)
\* with b's; capacities and octets at or beyond len play no part.
C12_CompareByContent ==
    pc = "compared" =>
        LET a == as_bytes(other.buf, other.len)
            b == as_bytes(buf, len)
            o == LexOrder(a, b)
        IN  /\ cmp.eq = (a = b)
            /\ cmp.partial_cmp = o
            /\ cmp.lt = (o = "Less")
            /\ cmp.le = (o # "Greater")
            /\ cmp.gt = (o = "Greater")
            /\ cmp.ge = (o # "Less")

\* Equal non-empty contents in strings of different capacities whose octets
\* beyond len differ.
C12_Witness ==
    /\ pc = "compared" /\ cmp.eq
    /\ other.cap # cap /\ len > 0
    /\ other.len < other.cap /\ len < cap
    /\ other.buf[other.len] # buf[len]
    /\ other.buf[other.len] # 0 /\ buf[len] # 0

\* C13: is_char_boundary(index) is true iff index = 0, index = len, or the
\* octet of the content at index (there is one only when index < len) is
\* not of the form 10xxxxxx; these are the offsets at which an encoding of
\* the content starts, and its end.  The call changes nothing.
C13_IsCharBoundary ==
    ret.op = "is_char_boundary" =>
        /\ pc = "returned"
        /\ (ret.kind = "true") <=>
            \/ ret.index = 0
            \/ ret.index = len
            \/ (ret.index < len /\ Content[ret.index + 1] \div 64 # 2)
        /\ (ret.kind = "true") <=> (ret.index \in Boundaries(Content))
        /\ buf = prev.buf /\ len = prev.len

\* An offset inside a multi-octet character that is not the first of the
\* content.
C13_Witness ==
    /\ pc = "returned" /\ ret.op = "is_char_boundary" /\ ret.kind = "false"
    /\ ret.index > 1 /\ ret.index < len

\* C14: truncate(n) with n a boundary of the content sets len to n and
\* writes no octet of buf: the content becomes its own prefix [0, n) and the
\* octets cut off stay in buf; clear() does the same with n = 0 and always
\* returns.
C14_TruncateKeepsStorage ==
    /\ (/\ pc \in {"returned", "aborted"}
        /\ ret.op = "truncate"
        /\ ret.index \in Boundaries(Old))
       => /\ pc = "returned" /\ ret.kind = "unit"
          /\ len = ret.index
          /\ buf = prev.buf
          /\ Content = SubSeq(Old, 1, ret.index)
    /\ ret.op = "clear"
       => /\ pc = "returned" /\ ret.kind = "unit"
          /\ len = 0
          /\ buf = prev.buf

\* A truncate that cut off a non-empty suffix of a longer content: the
\* first octet cut off is still in buf.
C14_Witness ==
    /\ pc = "returned" /\ ret.op = "truncate"
    /\ ret.index > 0 /\ ret.index < prev.len
    /\ buf[len] # 0

\* C17: pop() of an empty string returns None and changes neither len nor
\* buf; of a string of length L it returns Some of the last character, whose
\* encoding starts at the greatest boundary b < L -- every octet after b is
\* of the form 10xxxxxx, the one at b is not -- and leaves len = b and the
\* content [0, b) as it was.
C17_PopLast ==
    ret.op = "pop" =>
        IF prev.len = 0
        THEN /\ pc = "returned" /\ ret.kind = "none"
             /\ len = 0 /\ buf = prev.buf
        ELSE LET b == Greatest(Boundaries(Old) \ {prev.len}) IN
             /\ pc = "returned" /\ ret.kind = "some"
             /\ Old[b + 1] \div 64 # 2
             /\ \A j \in b + 2 .. prev.len : Old[j] \div 64 = 2
             /\ encode_utf8(ret.val) = SubSeq(Old, b + 1, prev.len)
             /\ len = b
             /\ Content = SubSeq(Old, 1, b)

\* U+5149 popped off a string that holds something in front of it.
C17_Witness ==
    /\ pc = "returned" /\ ret.op = "pop" /\ ret.kind = "some"
    /\ ret.val = 20809 /\ len > 0

\* C19: insert_str and insert test the boundary before the capacity: with an
\* index that is not a boundary of the content (inside a character, or past
\* len) the call panics, whether or not the addition fits, and leaves the
\* string as it was; LengthError is returned only for a boundary index.
C19_BoundaryBeforeCapacity ==
    /\ (/\ pc \in {"returned", "aborted"}
        /\ ret.op \in {"insert", "insert_str"}
        /\ ret.index \notin Boundaries(Old))
       => /\ pc = "aborted" /\ ret.kind = "panic"
          /\ len = prev.len /\ buf = prev.buf
    /\ (ret.op \in {"insert", "insert_str"} /\ ret.kind = "err")
       => ret.index \in Boundaries(Old)

\* An insert_str inside a character of a string that the addition would
\* also overflow.
C19_Witness ==
    /\ pc = "aborted" /\ ret.op = "insert_str"
    /\ ret.index < prev.len /\ ret.index \notin Boundaries(Old)
    /\ prev.len + Len(ret.s) > cap

\* C20: truncate(n) panics for every n that is not a boundary of the
\* content, every n > len among them whatever the octet buf[n] is; so a
\* truncate or clear never makes len greater and the content after it is a
\* prefix of the content before: octets beyond len do not come back.
C20_TruncateNeverGrows ==
    /\ (/\ pc \in {"returned", "aborted"}
        /\ ret.op = "truncate"
        /\ ret.index \notin Boundaries(Old))
       => /\ pc = "aborted" /\ ret.kind = "panic"
          /\ len = prev.len /\ buf = prev.buf
    /\ (pc \in {"returned", "aborted"} /\ ret.op \in {"truncate", "clear"})
       => /\ len <= prev.len
          /\ Content = SubSeq(Old, 1, len)

\* truncate(n) with n > len where buf[n] is a one-octet character left by
\* an earlier call.
C20_Witness ==
    /\ pc = "aborted" /\ ret.op = "truncate"
    /\ ret.index > prev.len /\ ret.index < cap
    /\ prev.buf[ret.index] = 97

\* The wire form of the octets q: a two-octet length, least significant
\* octet first, then q.
Wire(q) == <<Len(q) % 256, Len(q) \div 256>> \o q

C16_DecodeUtf8 ==
    (ret.op = "decode_utf8") =>
        \A j \in 1 .. Len(arg.chars) :
            (arg.index = Len(EncodeStr(SubSeq(arg.chars, 1, j - 1)))) =>
                /\ pc = "returned" /\ ret.kind = "ok"
                /\ ret.val = arg.chars[j]
                /\ ret.count = Len(encode_utf8(arg.chars[j]))
                /\ ret.count = SeqLenOfLead(arg.data[arg.index + 1])

\* decode_utf8 returned ('\u{1F54B}', 4) at an offset past a 3-octet
\* character.
C16_Witness ==
    /\ pc = "returned" /\ ret.op = "decode_utf8"
    /\ ret.val = 128331 /\ ret.count = 4 /\ ret.index = 3

\* The length the bit pattern of an octet announces: 1 for 0xxxxxxx, else
\* the number of ones in front of the first zero among the six high bits.
PatternLen(b) ==
    IF b < 128 THEN 1
    ELSE IF b < 192 THEN 1
    ELSE IF b < 224 THEN 2
    ELSE IF b < 240 THEN 3
    ELSE IF b < 248 THEN 4
    ELSE IF b < 252 THEN 5
    ELSE 6

====
